---- MODULE Spec2Model ----
(***************************************************************************)
(* LiteTrack dashboard: the in-memory Event Store, the Simulator           *)
(* (sendSimulatedEvent / verifyConnection / disconnect and their timers),  *)
(* the Aggregator (funnelData, stats) and the Insight Client (getInsights).*)
(*                                                                         *)
(* The repository holds four iterations of the App component.  The model   *)
(* carries all four; `variant` says which one a behaviour runs:            *)
(*   "part_000a"  src/unnamed/part_000 lines 1-623   (endpoint-gated,      *)
(*                pending log entries, 8000 ms abort timer)                *)
(*   "part_001"   src/unnamed/part_001               (no response.ok test) *)
(*   "part_000b"  src/unnamed/part_000 lines 626-1464 (themed, stats)      *)
(*   "App"        src/App.tsx                        (error log entries)   *)
(***************************************************************************)
EXTENDS Integers, Sequences, FiniteSets, TLC

VARIABLES
    variant,          \* which iteration of the App component runs
    mounted,          \* the mount effects (seeding) have run
    events,           \* useState<AnalyticsEvent[]>: the Event Store
    customEndpoint,   \* useState: delivery URL
    isVerified,       \* useState: connected flag (always FALSE in part_000a)
    testStatus,       \* useState: 'idle' | 'sending' | 'success' | 'error'
    errorMessage,     \* useState: string | null
    sentLogs,         \* useState<SentLog[]>
    customJson,       \* useState: text of the advanced-mode editor
    lastMatchedStep,  \* useState: string | null
    inflight,         \* fetch calls awaiting their response, with the caller's closure
    idleTimers,       \* pending setTimeout(() => setTestStatus('idle'))
    stepTimers,       \* pending setTimeout(() => setLastMatchedStep(null))
    nextId,           \* source of the Math.random() ids
    fetchCount,       \* history: POSTs issued by sendSimulatedEvent
    pingCount,        \* history: POSTs issued by verifyConnection
    last,             \* history: the last step of sendSimulatedEvent and what it raised
    abortTimers,      \* pending setTimeout(() => controller.abort(), 8000), by fetch call
    theme,            \* useState: 'light' | 'dark' (part_000b)
    aiConfig,         \* useState<AIConfig>
    storage,          \* window.localStorage
    aggIn,            \* Aggregator / Insight Client input under test
    aggOut            \* Aggregator / Insight Client result

simVars == <<variant, mounted, events, customEndpoint, isVerified, testStatus,
             errorMessage, sentLogs, customJson, lastMatchedStep, inflight,
             idleTimers, stepTimers, nextId, fetchCount, pingCount, last, abortTimers,
             theme, aiConfig, storage>>
cfgVars == <<theme, aiConfig, storage>>
aggVars == <<aggIn, aggOut>>
vars == <<simVars, aggVars>>

-----------------------------------------------------------------------------
(* Bounds of the model *)

\* sendSimulatedEvent calls that reach fetch, per behaviour of Spec
MaxSends == 2
\* fetch calls awaiting a response at the same time
MaxInFlight == 2
\* verifyConnection calls per behaviour
MaxVerifies == 1

-----------------------------------------------------------------------------
(* Values *)

Variants == {"part_000a", "part_001", "part_000b", "App"}
\* the variants whose simulator is gated on isVerified
VerifiedVariants == {"part_001", "part_000b", "App"}

\* a property that is absent from a JS object, and the null of a useState
Undefined == "undefined"
Null == "null"
\* an optional numeric field that is absent
Absent == -1

\* JS truthiness of an optional string / number
TruthyStr(s) == s # Undefined /\ s # ""
TruthyNum(n) == n # Absent /\ n # 0

\* a || b on optional strings
OrStr(a, b) == IF TruthyStr(a) THEN a ELSE b

Min(a, b) == IF a < b THEN a ELSE b
Max(a, b) == IF a > b THEN a ELSE b

\* no Aggregator / Insight Client call under test
NoAgg == [kind |-> "none"]

\* timestamps are in milliseconds, counted from the Date.now() of the mount
Event(type, path, duration, loadTime, timestamp) ==
    [type |-> type, path |-> path, duration |-> duration, loadTime |-> loadTime,
     timestamp |-> timestamp]

-----------------------------------------------------------------------------
(* The persisted configuration and window.localStorage *)

Themes == {"light", "dark"}
Providers == {"gemini-builtin", "custom-endpoint"}
Models == {"gemini-3-flash-preview", "gemini-3-pro-preview"}

\* AIConfig of types.ts; customEndpoint is optional
AIConfig(provider, model, endpoint) ==
    [provider |-> provider, model |-> model, customEndpoint |-> endpoint]

\* the value of useState<AIConfig> when nothing is saved
DefaultAIConfig == AIConfig("gemini-builtin", "gemini-3-flash-preview", Undefined)

\* JSON.stringify(aiConfig): the text, as its properties in order; a property
\* whose value is undefined is left out
Stringify(config) ==
    SelectSeq(<<<<"provider", config.provider>>, <<"model", config.model>>,
                <<"customEndpoint", config.customEndpoint>>>>,
              LAMBDA kv : kv[2] # Undefined)

\* a property of the object JSON.parse(text) yields
Property(text, key) ==
    IF \E i \in DOMAIN text : text[i][1] = key
    THEN text[CHOOSE i \in DOMAIN text : text[i][1] = key][2]
    ELSE Undefined

\* JSON.parse(saved) read as an AIConfig
ParseConfig(text) ==
    AIConfig(Property(text, "provider"), Property(text, "model"),
             Property(text, "customEndpoint"))

\* localStorage is a function from the keys it holds to their values
EmptyStorage == [k \in {} |-> ""]

\* localStorage.setItem(key, value)
SetItem(store, key, value) ==
    [k \in DOMAIN store \cup {key} |-> IF k = key THEN value ELSE store[k]]

\* localStorage.getItem(key) of a key that holds a string: null when absent
GetItem(store, key) == IF key \in DOMAIN store THEN store[key] ELSE Null

\* item || default
OrItem(item, default) == IF item = Null \/ item = "" THEN default ELSE item

\* String(isVerified)
BoolString(b) == IF b THEN "true" ELSE "false"

\* the effect that syncs the state to local storage.  part_000a saves the
\* delivery URL only, part_000b saves the theme too.
Persist_NoTheme(v, store, th, config, endpoint, verified) ==
    IF v = "part_000a" THEN SetItem(store, "litetrack_endpoint", endpoint)
    ELSE SetItem(SetItem(SetItem(store, "litetrack_ai_config", Stringify(config)),
                         "litetrack_endpoint", endpoint),
                 "litetrack_verified", BoolString(verified))
Persist(v, store, th, config, endpoint, verified) ==
    LET s1 == SetItem(store, "litetrack_ai_config", Stringify(config))
        s2 == SetItem(s1, "litetrack_endpoint", endpoint)
        s3 == SetItem(s2, "litetrack_verified", BoolString(verified))
    IN  IF v = "part_000a" THEN SetItem(store, "litetrack_endpoint", endpoint)
        ELSE IF v = "part_000b" THEN SetItem(s3, "litetrack_theme", th)
        ELSE s3

\* the useState initialisers that read local storage
LoadTheme(v, store) ==
    IF v = "part_000b" THEN OrItem(GetItem(store, "litetrack_theme"), "light") ELSE "light"
LoadAIConfig(v, store) ==
    IF v # "part_000a" /\ "litetrack_ai_config" \in DOMAIN store
    THEN ParseConfig(store["litetrack_ai_config"])
    ELSE DefaultAIConfig
LoadEndpoint(store) == OrItem(GetItem(store, "litetrack_endpoint"), "")
LoadVerified(v, store) == v # "part_000a" /\ GetItem(store, "litetrack_verified") = "true"

-----------------------------------------------------------------------------
(* Seeding *)

SeedHome == 450
SeedPricing == 280
SeedSignup == 120
SeedPurchase == 65
SeedMock == 80

MOCK_PAGES == <<"/home", "/pricing", "/docs", "/blog/post-1", "/about">>

\* The Event Store is kept run-length encoded: a sequence of runs [n, e],
\* each standing for n consecutive events equal to e (ids, which no
\* modelled code reads, are left out of an event).  Expand gives the list
\* itself.
Run(n, e) == [n |-> n, e |-> e]

RECURSIVE Expand(_)
Expand(runs) ==
    IF runs = <<>> THEN <<>>
    ELSE [i \in 1..Head(runs).n |-> Head(runs).e] \o Expand(Tail(runs))

RECURSIVE Length(_)
Length(runs) == IF runs = <<>> THEN 0 ELSE Head(runs).n + Length(Tail(runs))

\* setEvents(prev => [...prev, e])
Push_Front(runs, e) == <<Run(1, e)>> \o runs
Push(runs, e) == Append(runs, Run(1, e))

\* seed(count, path, type): count events pushed onto initialEvents
seed_OneMore(initialEvents, count, path, type, duration, loadTime, timestamp) ==
    Append(initialEvents, Run(count + 1, Event(type, path, duration, loadTime, timestamp)))
seed(initialEvents, count, path, type, duration, loadTime, timestamp) ==
    Append(initialEvents, Run(count, Event(type, path, duration, loadTime, timestamp)))

\* The four seed calls of the funnel variants.  Each event's timestamp is
\* drawn with Math.random(), and part_000b draws duration and loadTime too;
\* `meta` is the triple (duration, loadTime, timestamp) drawn.
SeedFunnel(meta) ==
    LET s1 == seed(<<>>, SeedHome, "/home", "pageview", meta[1], meta[2], meta[3])
        s2 == seed(s1, SeedPricing, "/pricing", "pageview", meta[1], meta[2], meta[3])
        s3 == seed(s2, SeedSignup, "/signup", "signup_start", meta[1], meta[2], meta[3])
    IN  seed(s3, SeedPurchase, "/checkout/success", "purchase_complete",
             meta[1], meta[2], meta[3])

\* now - Math.floor(Math.random() * 7 * 24 * 60 * 60 * 1000): the timestamp
\* the seeding is taken to draw, a day before the mount
SeedTimestamp == 0 - 24 * 60 * 60 * 1000

\* Date.now() at the completion of a simulated send, a minute after the mount
SimTimestamp == 60 * 1000

\* part_000a: 80 pageviews on pages drawn with Math.random(); the draws are
\* taken to give each page a run of 80 / 5 events, starting at page k + 1
SeedMockPages(k) ==
    [i \in 1..Len(MOCK_PAGES) |->
        Run(SeedMock \div Len(MOCK_PAGES),
            Event("pageview", MOCK_PAGES[((i - 1 + k) % Len(MOCK_PAGES)) + 1], Absent, Absent,
                  SeedTimestamp))]

\* the (duration, loadTime) pair Math.random() is taken to draw at seeding
\* (duration in 20..199, loadTime in 350..1449) and at a simulated send
\* (duration in 10..109, loadTime in 150..649), with the event's timestamp;
\* no handler reads them
SeedMetaDraws == {<<20, 350, SeedTimestamp>>}
SimMetaDraws == {<<10, 150, SimTimestamp>>}

SeededLists(v) ==
    CASE v = "part_000a" -> {SeedMockPages(k) : k \in {0}}
      [] v = "part_000b" -> {SeedFunnel(m) : m \in SeedMetaDraws}
      [] OTHER -> {SeedFunnel(<<Absent, Absent, SeedTimestamp>>)}

-----------------------------------------------------------------------------
(* Payloads, the advanced-mode editor text and JSON.parse *)

\* JSON.parse(customJson) yielding the value null: reading a property of it throws
NullPayload == [event |-> Undefined, path |-> Undefined, isNull |-> TRUE]
ObjPayload(event, path) == [event |-> event, path |-> path, isNull |-> FALSE]

\* payloadOverride omitted: sendSimulatedEvent()
NoOverride == [event |-> "<no override>", path |-> "<no override>", isNull |-> FALSE]

\* SCENARIOS[key], as far as the handlers read it (event, path)
SCENARIOS(v, key) ==
    IF v = "part_000a"
    THEN CASE key = "ecommerce" -> ObjPayload("purchase_complete", Undefined)
           [] key = "saas" -> ObjPayload("feature_used", Undefined)
           [] OTHER -> ObjPayload("api_failure", Undefined)
    ELSE CASE key = "ecommerce" -> ObjPayload("purchase_complete", "/checkout/success")
           [] key = "saas" -> ObjPayload("signup_start", "/signup")
           [] OTHER -> ObjPayload("api_failure", Undefined)

\* Texts of the editor: JSON.stringify(SCENARIOS[key], null, 2), the initial
\* text being that of 'ecommerce', and three texts a user types: the empty
\* object, the JSON value null, and a text that is not JSON.
TextOf(key) == "json:" \o key
EmptyObjectText == "{}"
NullText == "null"
InvalidText == "{oops"
JsonTexts == {TextOf("ecommerce"), EmptyObjectText, NullText, InvalidText}

\* a payload typed into the editor that names a pricing event and no path
PricingText == "{\"event\": \"view_pricing\"}"

\* JSON.parse(text): ok = FALSE stands for the SyntaxError it throws
ParseJson(v, text) ==
    IF text = InvalidText THEN [ok |-> FALSE, value |-> NullPayload]
    ELSE IF text = NullText THEN [ok |-> TRUE, value |-> NullPayload]
    ELSE IF text = EmptyObjectText THEN [ok |-> TRUE, value |-> ObjPayload(Undefined, Undefined)]
    ELSE IF text = PricingText THEN [ok |-> TRUE, value |-> ObjPayload("view_pricing", Undefined)]
    ELSE IF text = TextOf("saas") THEN [ok |-> TRUE, value |-> SCENARIOS(v, "saas")]
    ELSE IF text = TextOf("error") THEN [ok |-> TRUE, value |-> SCENARIOS(v, "error")]
    ELSE [ok |-> TRUE, value |-> SCENARIOS(v, "ecommerce")]

\* quickSend(type): the payload it hands to sendSimulatedEvent.  part_000a
\* draws the path from MOCK_PAGES with Math.random() (`draw`); the other
\* variants map the type to a path.
QuickTypes(v) ==
    CASE v = "part_000a" -> {"pageview", "button_click", "form_submit", "ping"}
      [] v = "part_001" -> {"pageview", "purchase_complete"}
      [] OTHER -> {"pageview", "view_pricing", "signup_start", "purchase_complete"}

QuickPath_Home(type) == "/home"
QuickPath(type) ==
    CASE type = "pageview" -> "/home"
      [] type = "view_pricing" -> "/pricing"
      [] type = "signup_start" -> "/signup"
      [] type = "purchase_complete" -> "/checkout/success"
      [] OTHER -> "/simulator"

quickSend(v, type, draw) ==
    IF v = "part_000a"
    THEN ObjPayload(type, MOCK_PAGES[draw])
    ELSE ObjPayload(IF type = "view_pricing" THEN "pageview" ELSE type, QuickPath(type))

-----------------------------------------------------------------------------
(* The delivery log *)

\* .slice(0, 10)
LogCap == 10

\* the id of the error entries of App.tsx ('ERR')
ErrId == 0

SentLog(id, type, status) == [id |-> id, type |-> type, status |-> status]

\* setSentLogs(prev => [entry, ...prev].slice(0, 10))
PrependLog_NoSlice(entry, prev) == <<entry>> \o prev
PrependLog(entry, prev) ==
    SubSeq(<<entry>> \o prev, 1, Min(LogCap, Len(prev) + 1))

\* setSentLogs(prev => prev.map(l => l.id === logId ? { ...l, status } : l))
SetLogStatus_None(prev, logId, status) == prev
SetLogStatus_All(prev, logId, status) ==
    [i \in 1..Len(prev) |-> [prev[i] EXCEPT !.status = status]]
SetLogStatus(prev, logId, status) ==
    [i \in 1..Len(prev) |->
        IF prev[i].id = logId THEN [prev[i] EXCEPT !.status = status] ELSE prev[i]]

-----------------------------------------------------------------------------
(* The event a successful send appends *)

LocalEvent(v, payload, meta) ==
    IF v = "part_000a"
    THEN Event(IF payload.event = "pageview" THEN "pageview" ELSE "click",
               OrStr(payload.path, "/simulator"), Absent, Absent, meta[3])
    ELSE Event(OrStr(payload.event, "click"), OrStr(payload.path, "/simulator"),
               meta[1], meta[2], meta[3])

\* the Math.random() draws of a simulated event's metadata
MetaDraws(v) ==
    IF v = "part_000b" THEN SimMetaDraws ELSE {<<Absent, Absent, SimTimestamp>>}

\* matchedStep of the funnel highlighting
MatchedStep(payload) ==
    IF payload.path = "/home" THEN "home"
    ELSE IF payload.path = "/pricing" THEN "pricing"
    ELSE IF payload.event = "signup_start" THEN "signup"
    ELSE IF payload.event = "purchase_complete" THEN "completed"
    ELSE Null

-----------------------------------------------------------------------------
(* sendSimulatedEvent: what the code after `await fetch(...)` does *)

\* how a fetch can end: a 2xx response, a non-2xx response, a rejection
\* (network failure), and in part_000a the abort of the 8000 ms timer
Outcomes(v) ==
    IF v = "part_000a" THEN {"ok", "http", "neterr", "abort"} ELSE {"ok", "http", "neterr"}

Rejected(outcome) == outcome \in {"neterr", "abort"}

\* the continuation reaches `setEvents(prev => [...prev, localEvent])`
AppendsEvent(v, payload, outcome) ==
    CASE v = "part_000a" -> outcome = "ok"
      [] v = "part_001" -> ~Rejected(outcome) /\ ~payload.isNull
      [] OTHER -> outcome = "ok" /\ ~payload.isNull

\* sentLogs after the continuation; newId is the id drawn for localEvent
LogsAfterSend(v, logs, r, outcome, newId) ==
    IF v = "part_000a"
    THEN SetLogStatus(logs, r.logId, IF outcome = "ok" THEN "success" ELSE "error")
    ELSE IF AppendsEvent(v, r.payload, outcome)
    THEN PrependLog(SentLog(newId, OrStr(r.payload.event, "click"), "success"), logs)
    ELSE IF v = "App" /\ Rejected(outcome) /\ ~r.payload.isNull
    THEN PrependLog(SentLog(ErrId, r.payload.event, "error"), logs)
    ELSE logs

\* testStatus after the continuation
StatusAfterSend(v, status, payload, outcome) ==
    IF v = "part_000a" THEN (IF outcome = "ok" THEN "success" ELSE "error")
    ELSE IF v = "part_001" THEN status
    ELSE IF outcome = "http" THEN status
    ELSE IF outcome = "ok" /\ ~payload.isNull THEN "success"
    ELSE "error"

\* the continuation schedules setTimeout(() => setTestStatus('idle'))
ArmsIdleTimer(v, payload, outcome) ==
    IF v = "part_000a" THEN TRUE
    ELSE IF v = "part_001" THEN FALSE
    ELSE outcome = "ok" /\ ~payload.isNull

\* the continuation schedules setTimeout(() => setLastMatchedStep(null))
ArmsStepTimer(v, payload, outcome) ==
    IF v = "App" THEN outcome = "ok" /\ ~payload.isNull
    ELSE IF v = "part_000b" THEN outcome = "ok" /\ ~payload.isNull /\ MatchedStep(payload) # Null
    ELSE FALSE

\* lastMatchedStep after the continuation
StepAfterSend(v, step, payload, outcome) ==
    IF v \in {"App", "part_000b"} /\ outcome = "ok" /\ ~payload.isNull
       /\ MatchedStep(payload) # Null
    THEN MatchedStep(payload)
    ELSE step

\* an exception leaves the continuation: in App.tsx the catch block reads
\* finalPayload.event, which throws when the payload is null
ContinuationThrows(v, payload, outcome) ==
    v = "App" /\ payload.isNull /\ outcome # "http"

\* the 8000 ms timers after the continuation: clearTimeout(timeoutId) in the
\* try block and in the catch block (the timer that aborted has fired)
TimersAfterSend_NoClear(timers, r, outcome) ==
    IF outcome = "abort" THEN timers \ {r.rid} ELSE timers
TimersAfterSend(timers, r, outcome) == timers \ {r.rid}

\* the POSTs the continuation issues: no path of it calls fetch again
ContinuationFetches_Retry(v, outcome) == IF outcome = "ok" THEN 0 ELSE 1
ContinuationFetches(v, outcome) == 0

\* A handler step: the handler, how it went, the alert() popups it raised,
\* the exceptions that left it uncaught and the POSTs it issued
Step(op, outcome, alerts, uncaught, fetches) ==
    [op |-> op, outcome |-> outcome, alerts |-> alerts, uncaught |-> uncaught,
     fetches |-> fetches]

SendDone(r, outcome, meta) ==
    /\ r \in inflight
    /\ r.kind = "send"
    /\ outcome \in Outcomes(variant)
    /\ meta \in MetaDraws(variant)
    /\ outcome = "abort" => r.rid \in abortTimers
    /\ inflight' = IF ContinuationFetches(variant, outcome) = 0
                   THEN inflight \ {r} ELSE inflight
    /\ fetchCount' = fetchCount + ContinuationFetches(variant, outcome)
    /\ abortTimers' = TimersAfterSend(abortTimers, r, outcome)
    /\ events' = IF AppendsEvent(variant, r.payload, outcome)
                 THEN Push(events, LocalEvent(variant, r.payload, meta))
                 ELSE events
    /\ sentLogs' = LogsAfterSend(variant, sentLogs, r, outcome, nextId)
    /\ nextId' = IF variant # "part_000a" /\ AppendsEvent(variant, r.payload, outcome)
                 THEN nextId + 1 ELSE nextId
    /\ testStatus' = StatusAfterSend(variant, testStatus, r.payload, outcome)
    /\ idleTimers' = idleTimers + (IF ArmsIdleTimer(variant, r.payload, outcome) THEN 1 ELSE 0)
    /\ stepTimers' = stepTimers + (IF ArmsStepTimer(variant, r.payload, outcome) THEN 1 ELSE 0)
    /\ lastMatchedStep' = StepAfterSend(variant, lastMatchedStep, r.payload, outcome)
    /\ last' = Step("sendDone", outcome, 0,
                     IF ContinuationThrows(variant, r.payload, outcome) THEN 1 ELSE 0,
                     ContinuationFetches(variant, outcome))
    /\ UNCHANGED <<cfgVars, variant, mounted, customEndpoint, isVerified, errorMessage,
                   customJson, pingCount, aggVars>>

-----------------------------------------------------------------------------
(* sendSimulatedEvent: the code up to `await fetch(...)` *)

Urls == {"https://a.workers.dev"}
Endpoints == {""} \cup Urls

Request(rid, kind, payload, logId, url) ==
    [rid |-> rid, kind |-> kind, payload |-> payload, logId |-> logId, url |-> url]

\* a name for a new fetch call, unused among those awaiting a response
FreeRid == CHOOSE i \in 1..(MaxInFlight + 1) : \A r \in inflight : r.rid # i

\* finalPayload: the override, or JSON.parse(customJson)
FinalPayload(v, override, text) ==
    IF override # NoOverride THEN [ok |-> TRUE, value |-> override] ELSE ParseJson(v, text)

\* the guard at the entry of sendSimulatedEvent: if (!customEndpoint) in
\* part_000a, if (!isVerified) in the other variants
NotConnected_Never(v, endpoint, verified) == FALSE
NotConnected(v, endpoint, verified) ==
    IF v = "part_000a" THEN endpoint = "" ELSE ~verified

\* part_000a, lines 102-141
SendStartPending(override, maxSends) ==
    LET parsed == FinalPayload(variant, override, customJson) IN
    IF NotConnected(variant, customEndpoint, isVerified)
    THEN \* alert("Please enter your Worker URL first!"); return
         /\ last' = Step("send", "guard", 1, 0, 0)
         /\ UNCHANGED <<testStatus, sentLogs, inflight, nextId, fetchCount, abortTimers>>
    ELSE IF ~parsed.ok
    THEN \* alert("Invalid JSON in Advanced Designer"); setTestStatus('error'); return
         /\ testStatus' = "error"
         /\ last' = Step("send", "malformed", 1, 0, 0)
         /\ UNCHANGED <<sentLogs, inflight, nextId, fetchCount, abortTimers>>
    ELSE IF parsed.value.isNull
    THEN \* finalPayload.event of null throws at the construction of newLog
         /\ testStatus' = "sending"
         /\ last' = Step("send", "typeerror", 0, 1, 0)
         /\ UNCHANGED <<sentLogs, inflight, nextId, fetchCount, abortTimers>>
    ELSE /\ fetchCount < maxSends
         /\ Cardinality(inflight) < MaxInFlight
         /\ testStatus' = "sending"
         /\ sentLogs' = PrependLog(
                SentLog(nextId, OrStr(parsed.value.event, "unknown"), "pending"), sentLogs)
         /\ inflight' = inflight \cup
                {Request(FreeRid, "send", parsed.value, nextId, customEndpoint)}
         /\ abortTimers' = abortTimers \cup {FreeRid}
         /\ nextId' = nextId + 1
         /\ fetchCount' = fetchCount + 1
         /\ last' = Step("send", "issued", 0, 0, 1)

\* part_001 lines 104-112, part_000 lines 822-831, App.tsx lines 149-158
SendStartVerified(override, maxSends) ==
    LET parsed == FinalPayload(variant, override, customJson) IN
    IF NotConnected(variant, customEndpoint, isVerified)
    THEN \* if (!isVerified) return
         /\ last' = Step("send", "guard", 0, 0, 0)
         /\ UNCHANGED <<testStatus, sentLogs, inflight, nextId, fetchCount, abortTimers>>
    ELSE IF ~parsed.ok
    THEN \* JSON.parse throws before the try block
         /\ last' = Step("send", "malformed", 0, 1, 0)
         /\ UNCHANGED <<testStatus, sentLogs, inflight, nextId, fetchCount, abortTimers>>
    ELSE /\ fetchCount < maxSends
         /\ Cardinality(inflight) < MaxInFlight
         /\ testStatus' = IF variant = "part_001" THEN testStatus ELSE "sending"
         /\ inflight' = inflight \cup
                {Request(FreeRid, "send", parsed.value, ErrId, customEndpoint)}
         /\ UNCHANGED nextId
         /\ fetchCount' = fetchCount + 1
         /\ last' = Step("send", "issued", 0, 0, 1)
         /\ UNCHANGED <<sentLogs, abortTimers>>

sendSimulatedEvent(override, maxSends) ==
    /\ mounted
    /\ IF variant = "part_000a"
       THEN SendStartPending(override, maxSends)
       ELSE SendStartVerified(override, maxSends)
    /\ UNCHANGED <<cfgVars, variant, mounted, events, customEndpoint, isVerified, errorMessage,
                   customJson, lastMatchedStep, idleTimers, stepTimers, pingCount, aggVars>>

\* the advanced-mode button: sendSimulatedEvent()
AdvancedSend == sendSimulatedEvent(NoOverride, MaxSends)

\* the draws of Math.random() over MOCK_PAGES taken for part_000a's quickSend
QuickDraws == {1, 3}

\* a quick-action button: quickSend(type); the 'Immediate Ping' button of
\* part_000a is disabled while testStatus is 'sending'
QuickSend(type, draw) ==
    /\ type \in QuickTypes(variant)
    /\ draw \in (IF variant = "part_000a" THEN QuickDraws ELSE {1})
    /\ (variant = "part_000a" /\ type = "ping") => testStatus # "sending"
    /\ sendSimulatedEvent(quickSend(variant, type, draw), MaxSends)

-----------------------------------------------------------------------------
(* verifyConnection, disconnect, the inputs and the timers *)

PingPayload == ObjPayload("ping", Undefined)

\* e.message shown after a failed verification
VerifyError(v, outcome) ==
    IF outcome = "neterr" THEN "Failed to fetch"
    ELSE IF v = "part_001" THEN "Worker Error"
    ELSE IF v = "part_000b" THEN "Pipeline returned 500"
    ELSE "Connection Failed: 500"

\* The Connect button is rendered while !isVerified, and is disabled while
\* testStatus is 'sending' in part_000b and App.tsx.
verifyConnection ==
    /\ mounted
    /\ variant \in VerifiedVariants
    /\ ~isVerified
    /\ variant # "part_001" => testStatus # "sending"
    /\ pingCount < MaxVerifies
    /\ Cardinality(inflight) < MaxInFlight
    /\ testStatus' = "sending"
    /\ errorMessage' = IF variant = "part_001" THEN errorMessage ELSE Null
    /\ inflight' = inflight \cup {Request(FreeRid, "verify", PingPayload, ErrId, customEndpoint)}
    /\ pingCount' = pingCount + 1
    /\ UNCHANGED <<abortTimers, cfgVars, variant, mounted, events, customEndpoint, isVerified, sentLogs, customJson,
                   lastMatchedStep, nextId, idleTimers, stepTimers, fetchCount, last, aggVars>>

\* isVerified after the code that follows `await fetch(...)`:
\* if (response.ok) setIsVerified(true), nothing in the catch block
VerifiedAfterPing_Always(verified, outcome) == TRUE
VerifiedAfterPing(verified, outcome) == IF outcome = "ok" THEN TRUE ELSE verified

VerifyDone(r, outcome) ==
    /\ r \in inflight
    /\ r.kind = "verify"
    /\ outcome \in {"ok", "http", "neterr"}
    /\ inflight' = inflight \ {r}
    /\ isVerified' = VerifiedAfterPing(isVerified, outcome)
    /\ testStatus' = IF outcome = "ok" THEN "success" ELSE "error"
    /\ errorMessage' = IF outcome = "ok" THEN errorMessage ELSE VerifyError(variant, outcome)
    /\ idleTimers' = idleTimers + (IF outcome = "ok" /\ variant # "part_001" THEN 1 ELSE 0)
    /\ UNCHANGED <<abortTimers, theme, aiConfig, variant, mounted, events, customEndpoint, sentLogs, customJson,
                   lastMatchedStep, stepTimers, nextId, fetchCount, pingCount, last, aggVars>>
    /\ storage' = Persist(variant, storage, theme, aiConfig, customEndpoint', isVerified')

\* The Disconnect button is rendered while isVerified (part_000b, App.tsx)
disconnect ==
    /\ mounted
    /\ variant \in {"part_000b", "App"}
    /\ isVerified
    /\ isVerified' = FALSE
    /\ testStatus' = "idle"
    /\ errorMessage' = Null
    /\ UNCHANGED <<abortTimers, theme, aiConfig, variant, mounted, events, customEndpoint, sentLogs, customJson,
                   lastMatchedStep, inflight, idleTimers, stepTimers, nextId, fetchCount,
                   pingCount, last, aggVars>>
    /\ storage' = Persist(variant, storage, theme, aiConfig, customEndpoint', isVerified')

\* The URL input: always rendered in part_000a, rendered while !isVerified in
\* the other variants
setCustomEndpoint(url) ==
    /\ mounted
    /\ url \in Endpoints
    /\ url # customEndpoint
    /\ variant = "part_000a" \/ ~isVerified
    /\ customEndpoint' = url
    /\ UNCHANGED <<abortTimers, theme, aiConfig, variant, mounted, events, isVerified, testStatus, errorMessage, sentLogs,
                   customJson, lastMatchedStep, inflight, idleTimers, stepTimers, nextId,
                   fetchCount, pingCount, last, aggVars>>
    /\ storage' = Persist(variant, storage, theme, aiConfig, customEndpoint', isVerified')

\* The payload editor (and applyTemplate in part_000a); part_001 renders no
\* editor, the other variants render it while isVerified
setCustomJson(text) ==
    /\ mounted
    /\ text \in JsonTexts \cup {PricingText}
    /\ text # customJson
    /\ variant = "part_000a" \/ (variant \in {"part_000b", "App"} /\ isVerified)
    /\ customJson' = text
    /\ UNCHANGED <<abortTimers, cfgVars, variant, mounted, events, customEndpoint, isVerified, testStatus,
                   errorMessage, sentLogs, lastMatchedStep, inflight, idleTimers, stepTimers,
                   nextId, fetchCount, pingCount, last, aggVars>>

\* setTimeout(() => setTestStatus('idle'), ...)
IdleTimerFires ==
    /\ idleTimers > 0
    /\ idleTimers' = idleTimers - 1
    /\ testStatus' = "idle"
    /\ UNCHANGED <<abortTimers, cfgVars, variant, mounted, events, customEndpoint, isVerified, errorMessage,
                   sentLogs, customJson, lastMatchedStep, inflight, stepTimers, nextId,
                   fetchCount, pingCount, last, aggVars>>

\* setTimeout(() => setLastMatchedStep(null), ...)
StepTimerFires ==
    /\ stepTimers > 0
    /\ stepTimers' = stepTimers - 1
    /\ lastMatchedStep' = Null
    /\ UNCHANGED <<abortTimers, cfgVars, variant, mounted, events, customEndpoint, isVerified, testStatus,
                   errorMessage, sentLogs, customJson, inflight, idleTimers, nextId,
                   fetchCount, pingCount, last, aggVars>>

\* toggleTheme: the button of part_000b's header, and the sync effect
toggleTheme ==
    /\ mounted
    /\ variant = "part_000b"
    /\ theme' = IF theme = "light" THEN "dark" ELSE "light"
    /\ storage' = Persist(variant, storage, theme', aiConfig, customEndpoint, isVerified)
    /\ UNCHANGED <<variant, mounted, events, customEndpoint, isVerified, testStatus,
                   errorMessage, sentLogs, customJson, lastMatchedStep, inflight, idleTimers,
                   stepTimers, nextId, fetchCount, pingCount, last, abortTimers, aiConfig,
                   aggVars>>

\* what a user types into the Custom JSON Endpoint input of the settings
ConfigEndpoints == {"", "https://ai.example"}

\* the controls of the settings tab: setAiConfig({ ...aiConfig, [field]: value }),
\* and the sync effect.  The model select is rendered for the built-in
\* provider, the endpoint input for the custom one.
setAiConfig(field, value) ==
    /\ mounted
    /\ variant \in VerifiedVariants
    /\ \/ field = "provider" /\ value \in Providers
       \/ field = "model" /\ value \in Models /\ aiConfig.provider = "gemini-builtin"
       \/ field = "customEndpoint" /\ value \in ConfigEndpoints
            /\ aiConfig.provider = "custom-endpoint"
    /\ aiConfig' = [aiConfig EXCEPT ![field] = value]
    /\ aiConfig' # aiConfig
    /\ storage' = Persist(variant, storage, theme, aiConfig', customEndpoint, isVerified)
    /\ UNCHANGED <<variant, mounted, events, customEndpoint, isVerified, testStatus,
                   errorMessage, sentLogs, customJson, lastMatchedStep, inflight, idleTimers,
                   stepTimers, nextId, fetchCount, pingCount, last, abortTimers, theme,
                   aggVars>>

\* The page is reloaded: the document's requests and timers are gone and the
\* useState initialisers run again; local storage is what outlives it
Reload ==
    /\ mounted
    /\ mounted' = FALSE
    /\ events' = <<>>
    /\ theme' = LoadTheme(variant, storage)
    /\ aiConfig' = LoadAIConfig(variant, storage)
    /\ customEndpoint' = LoadEndpoint(storage)
    /\ isVerified' = LoadVerified(variant, storage)
    /\ testStatus' = "idle"
    /\ errorMessage' = Null
    /\ sentLogs' = <<>>
    /\ customJson' = TextOf("ecommerce")
    /\ lastMatchedStep' = Null
    /\ inflight' = {}
    /\ idleTimers' = 0
    /\ stepTimers' = 0
    /\ abortTimers' = {}
    /\ last' = Step("reload", "", 0, 0, 0)
    /\ UNCHANGED <<variant, storage, nextId, fetchCount, pingCount, aggVars>>

\* the mount effect that seeds the Event Store; React runs it before any
\* user event is handled
Seed ==
    /\ ~mounted
    /\ mounted' = TRUE
    /\ events' \in SeededLists(variant)
    /\ UNCHANGED <<abortTimers, theme, aiConfig, variant, customEndpoint, isVerified, testStatus, errorMessage, sentLogs,
                   customJson, lastMatchedStep, inflight, idleTimers, stepTimers, nextId,
                   fetchCount, pingCount, last, aggVars>>
    /\ storage' = Persist(variant, storage, theme, aiConfig, customEndpoint', isVerified')

-----------------------------------------------------------------------------
(* JS numbers: IEEE-754 binary64 division, multiplication by 100, 1 - q and *)
(* Math.round, on the magnitudes the Aggregator meets                       *)

\* bits of a binary64 significand
Precision == 53

\* A number is [neg, int, frac]: its sign, the integer part of its magnitude
\* and its fraction as a sequence of limbs of LimbBits bits, most significant
\* first.  Quotients are developed to FracLimbs limbs, enough for a
\* significand and a rounding bit below any quotient of at least 2^-16.
LimbBits == 10
Base == 2^LimbBits
FracLimbs == 7

Num(neg, int, frac) == [neg |-> neg, int |-> int, frac |-> frac]

\* number of bits of n
BitLen(n) == Cardinality({k \in 0..30 : 2^k <= n})

IsZero(frac) == \A i \in DOMAIN frac : frac[i] = 0

LeadingZeros(frac) ==
    IF IsZero(frac) THEN LimbBits * Len(frac)
    ELSE LET j == CHOOSE i \in DOMAIN frac : frac[i] # 0 /\ \A m \in 1..(i - 1) : frac[m] = 0
         IN  LimbBits * (j - 1) + (LimbBits - BitLen(frac[j]))

\* fraction bits a binary64 of this magnitude holds
Kept(int, frac) ==
    IF int > 0 THEN Precision - BitLen(int) ELSE LeadingZeros(frac) + Precision

\* frac plus `amount` units of its last limb
RECURSIVE AddAt(_, _)
AddAt(frac, amount) ==
    IF frac = <<>> THEN [limbs |-> <<>>, carry |-> amount]
    ELSE LET t == frac[Len(frac)] + amount
             r == AddAt(SubSeq(frac, 1, Len(frac) - 1), t \div Base)
         IN  [limbs |-> Append(r.limbs, t % Base), carry |-> r.carry]

\* round to nearest, ties to even; sticky: the exact value has further
\* non-zero bits below frac
RoundDouble(neg, int, frac, sticky) ==
    LET k == Kept(int, frac) IN
    IF k >= LimbBits * Len(frac) THEN Num(neg, int, frac)
    ELSE LET L == k \div LimbBits + 1              \* the limb of the rounding bit
             h == 2^(LimbBits * L - (k + 1))       \* its place in that limb
             v == frac[L]
             rest == sticky \/ v % h # 0 \/ \E i \in (L + 1)..Len(frac) : frac[i] # 0
             lsb == IF 2 * h < Base THEN (v \div (2 * h)) % 2
                    ELSE IF L = 1 THEN int % 2 ELSE frac[L - 1] % 2
             kept == Append(SubSeq(frac, 1, L - 1), (v \div (2 * h)) * (2 * h))
             inc == AddAt(kept, 2 * h)
         IN  IF (v \div h) % 2 = 1 /\ (rest \/ lsb = 1)
             THEN Num(neg, int + inc.carry, inc.limbs)
             ELSE Num(neg, int, kept)

\* long division of the remainder r by b, n limbs of the quotient
RECURSIVE DivLimbs(_, _, _)
DivLimbs(r, b, n) ==
    IF n = 0 THEN [limbs |-> <<>>, rem |-> r]
    ELSE LET rest == DivLimbs((r * Base) % b, b, n - 1)
         IN  [limbs |-> <<(r * Base) \div b>> \o rest.limbs, rem |-> rest.rem]

\* c / b for integers c >= 0, b > 0
Div(c, b) ==
    LET d == DivLimbs(c % b, b, FracLimbs)
    IN  RoundDouble(FALSE, c \div b, d.limbs, d.rem # 0)

\* the fraction times 100, from the last limb up
RECURSIVE MulLimbs(_, _)
MulLimbs(frac, carry) ==
    IF frac = <<>> THEN [limbs |-> <<>>, carry |-> carry]
    ELSE LET t == frac[Len(frac)] * 100 + carry
             r == MulLimbs(SubSeq(frac, 1, Len(frac) - 1), t \div Base)
         IN  [limbs |-> Append(r.limbs, t % Base), carry |-> r.carry]

\* x * 100
Times100(x) ==
    LET m == MulLimbs(x.frac, 0)
    IN  RoundDouble(x.neg, x.int * 100 + m.carry, m.limbs, FALSE)

\* 1 - q for q >= 0
OneMinus(q) ==
    IF q.int = 0
    THEN IF IsZero(q.frac) THEN Num(FALSE, 1, <<>>)
         ELSE RoundDouble(FALSE, 0,
                          AddAt([i \in DOMAIN q.frac |-> Base - 1 - q.frac[i]], 1).limbs, FALSE)
    ELSE RoundDouble(q.int > 1 \/ ~IsZero(q.frac), q.int - 1, q.frac, FALSE)

\* Math.round(x): the integer nearest x, ties toward +Infinity
MathRound(x) ==
    LET half == Base \div 2 IN
    IF ~x.neg
    THEN x.int + (IF Len(x.frac) > 0 /\ x.frac[1] >= half THEN 1 ELSE 0)
    ELSE 0 - x.int - (IF Len(x.frac) > 0
                         /\ (x.frac[1] > half
                             \/ (x.frac[1] = half /\ ~IsZero(Tail(x.frac)))) THEN 1 ELSE 0)

-----------------------------------------------------------------------------
(* The Aggregator: funnelData and stats, derived from the Event Store *)

\* a || b on numbers
OrNum(a, b) == IF TruthyNum(a) THEN a ELSE b

\* String.prototype.includes
Includes(s, sub) ==
    \E i \in 1..(Len(s) - Len(sub) + 1) : SubSeq(s, i, i + Len(sub) - 1) = sub

\* events.filter(pred).length, `matching` being the runs whose event passes
\* the predicate
RECURSIVE FilterLength(_, _)
FilterLength(runs, matching) ==
    IF matching = {} THEN 0
    ELSE LET i == CHOOSE j \in matching : TRUE
         IN  runs[i].n + FilterLength(runs, matching \ {i})

IsHome(e) == e.path = "/home"
IsPricing(e) == e.path = "/pricing" \/ Includes(e.type, "pricing")
IsSignup(e) == e.path = "/signup" \/ e.type = "signup_start"
IsCompleted(e) == e.path = "/checkout/success" \/ e.type = "purchase_complete"

StepKeys == <<"home", "pricing", "signup", "completed">>

\* the counts of the four funnel steps
StepCounts(runs) ==
    <<FilterLength(runs, {i \in DOMAIN runs : IsHome(runs[i].e)}),
      FilterLength(runs, {i \in DOMAIN runs : IsPricing(runs[i].e)}),
      FilterLength(runs, {i \in DOMAIN runs : IsSignup(runs[i].e)}),
      FilterLength(runs, {i \in DOMAIN runs : IsCompleted(runs[i].e)})>>

\* Math.round((1 - (count / (prev || 1))) * 100)
Dropoff(count, prev) == MathRound(Times100(OneMinus(Div(count, OrNum(prev, 1)))))

\* Math.round((count / totalBase) * 100)
Conversion_Inverted(count, totalBase) == MathRound(Times100(Div(totalBase, OrNum(count, 1))))
Conversion(count, totalBase) == MathRound(Times100(Div(count, totalBase)))

funnelData(runs) ==
    LET counts == StepCounts(runs)
        totalBase == OrNum(counts[1], 1)
    IN  [i \in 1..4 |->
            [stepKey |-> StepKeys[i],
             count |-> counts[i],
             dropoff |-> IF i = 1 THEN 0 ELSE Dropoff(counts[i], counts[i - 1]),
             conversion |-> Conversion(counts[i], totalBase)]]

\* events.reduce((acc, e) => acc + (e.metadata.duration || 45), 0)
DefaultDuration == 45
DefaultLoadTime == 600

RECURSIVE Reduce(_, _, _)
Reduce(runs, field, default) ==
    IF runs = <<>> THEN 0
    ELSE Head(runs).n * OrNum(Head(runs).e[field], default) + Reduce(Tail(runs), field, default)

\* Date.now() - 5 * 60 * 1000
FiveMinutes == 5 * 60 * 1000

\* totalEvents, avgDuration, activeNow and avgLoadTime of stats; `now` is the
\* Date.now() the computation reads
stats(runs, now) ==
    [totalEvents |-> Length(runs),
     activeNow |-> FilterLength(runs, {i \in DOMAIN runs :
                                          runs[i].e.timestamp > now - FiveMinutes}),
     avgDuration |-> IF Length(runs) > 0
                     THEN MathRound(Div(Reduce(runs, "duration", DefaultDuration), Length(runs)))
                     ELSE 0,
     avgLoadTime |-> IF Length(runs) > 0
                     THEN MathRound(Div(Reduce(runs, "loadTime", DefaultLoadTime), Length(runs)))
                     ELSE 0]

-----------------------------------------------------------------------------
(* The Insight Client: generateAnalyticsInsights and the two versions of   *)
(* aiManager.getInsights in src/services/geminiService.ts                   *)

Versions == {"generateAnalyticsInsights", "getInsights_v1", "getInsights_v2"}

\* new GoogleGenAI({ apiKey: process.env.API_KEY }) is a call into
\* @google/genai: it returns a client or throws
CtorOutcomes == {"client", "throws"}

\* what the provider's call can end with: a report as JSON text, an empty
\* body, a text that is not JSON, a non-2xx status, a network failure
CallOutcomes == {"report", "empty", "malformed", "http", "neterr"}

Report(summary, suggestions, performanceScore) ==
    [summary |-> summary, suggestions |-> suggestions,
     performanceScore |-> performanceScore]

\* the report a provider answers with, and JSON.parse('{}'), an object that
\* has no properties (reading one yields undefined)
ProviderReport == Report("Traffic is healthy.", <<"Shorten the signup form.">>, 87)
EmptyReport == [property \in {} |-> Undefined]

\* the report of each catch block
Fallback(version) ==
    IF version = "generateAnalyticsInsights"
    THEN Report("Unable to generate insights at this time.",
                <<"Ensure your tracking script is installed correctly.",
                  "Monitor traffic daily for anomalies.">>, 0)
    ELSE IF version = "getInsights_v1"
    THEN Report("The AI engine is currently unavailable or misconfigured.",
                <<"Check your API settings in the Settings tab.",
                  "Ensure your network allows outbound AI requests.">>, 0)
    ELSE Report("Inference engine paused. Check your connection.",
                <<"Verify API Key.", "Check firewall.">>, 0)

Returns(value) == [thrown |-> FALSE, value |-> value]
Throws == [thrown |-> TRUE, value |-> EmptyReport]

\* GeminiProvider.generateInsights
GeminiProvider(ctor, call) ==
    IF ctor = "throws" THEN Throws
    ELSE IF call \in {"neterr", "http"} THEN Throws      \* generateContent rejects
    ELSE IF call = "malformed" THEN Throws               \* JSON.parse throws
    ELSE IF call = "empty" THEN Returns(EmptyReport)     \* JSON.parse(response.text || '{}')
    ELSE Returns(ProviderReport)

\* CustomEndpointProvider.generateInsights
CustomEndpointProvider(config, call) ==
    IF ~TruthyStr(config.customEndpoint) THEN Throws     \* "No custom endpoint configured"
    ELSE IF call = "neterr" THEN Throws                  \* fetch rejects
    ELSE IF call = "http" THEN Throws                    \* !response.ok
    ELSE IF call \in {"malformed", "empty"} THEN Throws  \* response.json() rejects
    ELSE Returns(ProviderReport)

Settled(state, report) == [kind |-> "insight", state |-> state, report |-> report]

\* events.slice(-k): the last k events, or all of them when there are fewer
RECURSIVE SliceLast(_, _)
SliceLast(runs, k) ==
    IF runs = <<>> \/ k = 0 THEN <<>>
    ELSE LET r == runs[Len(runs)]
             front == SubSeq(runs, 1, Len(runs) - 1)
         IN  IF r.n >= k THEN <<Run(k, r.e)>>
             ELSE Append(SliceLast(front, k - r.n), r)

\* the sizes of the samples: events.slice(-100) of the first prepareSummary,
\* events.slice(-50) of the second one and of CustomEndpointProvider
SummarySampleV1 == 100
SummarySampleV2 == 50
CustomSample == 50

\* events.reduce((acc, e) => { acc[e.path] = (acc[e.path] || 0) + 1; return acc }, {})
PathCounts(runs) ==
    [p \in {runs[i].e.path : i \in DOMAIN runs} |->
        FilterLength(runs, {i \in DOMAIN runs : runs[i].e.path = p})]

\* the events whose paths the summary for the hosted model counts:
\* generateAnalyticsInsights reduces the whole list, prepareSummary a slice
SummaryEvents(version, runs) ==
    IF version = "generateAnalyticsInsights" THEN runs
    ELSE IF version = "getInsights_v1" THEN SliceLast(runs, SummarySampleV1)
    ELSE SliceLast(runs, SummarySampleV2)

\* the NaN of JS numbers
NaN == [nan |-> TRUE]
IsNaN(x) == "nan" \in DOMAIN x

\* c / events.length: the dividend is 0 when the list is empty, and 0 / 0 is NaN
Divide(c, b) == IF b = 0 THEN NaN ELSE Div(c, b)

\* avgLoadTime and conversionRate of the second prepareSummary
avgLoadTime(runs) == Divide(Reduce(runs, "loadTime", 0), Length(runs))
conversionRate(runs) ==
    LET q == Divide(FilterLength(runs, {i \in DOMAIN runs :
                                           runs[i].e.type = "purchase_complete"}),
                    Length(runs))
    IN  IF IsNaN(q) THEN NaN ELSE Times100(q)

\* prepareSummary(events) of GeminiProvider, summaryData of generateAnalyticsInsights
prepareSummary(version, runs) ==
    IF version = "getInsights_v2"
    THEN [to |-> "gemini", total |-> Length(runs),
          avgLoadTime |-> avgLoadTime(runs),
          conversionRate |-> conversionRate(runs),
          pages |-> PathCounts(SummaryEvents(version, runs))]
    ELSE [to |-> "gemini", total |-> Length(runs),
          pages |-> PathCounts(SummaryEvents(version, runs))]

NoRequest == [to |-> "nobody"]

\* what the Insight Client sends: the summary in the prompt for the hosted
\* model, or the body of the POST to the custom endpoint; nothing when the
\* client could not be built or no endpoint is configured
InsightRequest(version, config, ctor, runs) ==
    IF version = "generateAnalyticsInsights" \/ config.provider = "gemini-builtin"
    THEN IF ctor = "throws" THEN NoRequest
         ELSE prepareSummary(version, runs)
    ELSE IF ~TruthyStr(config.customEndpoint) THEN NoRequest
         ELSE [to |-> "custom", events |-> SliceLast(runs, CustomSample)]

\* aiManager.getInsights: the whole body is inside try
getInsights(version, config, ctor, call) ==
    LET r == IF config.provider = "gemini-builtin"
             THEN GeminiProvider(ctor, call)
             ELSE CustomEndpointProvider(config, call)
    IN  IF r.thrown THEN Settled("resolved", Fallback(version))
        ELSE Settled("resolved", r.value)

\* generateAnalyticsInsights: the client is built before the try block
generateAnalyticsInsights(ctor, call) ==
    IF ctor = "throws" THEN Settled("rejected", EmptyReport)
    ELSE IF call \in {"neterr", "http"} THEN Settled("resolved", Fallback("generateAnalyticsInsights"))
    ELSE IF call = "empty" THEN Settled("resolved", Fallback("generateAnalyticsInsights"))
    ELSE IF call = "malformed" THEN Settled("resolved", Fallback("generateAnalyticsInsights"))
    ELSE Settled("resolved", ProviderReport)

\* fetchInsights awaiting the Insight Client; aggIn holds the call
FetchInsights(ctor, call) ==
    /\ aggIn.kind = "insight"
    /\ aggOut = NoAgg
    /\ ctor \in CtorOutcomes
    /\ call \in CallOutcomes
    /\ aggIn' = [aggIn EXCEPT !.ctor = ctor, !.call = call]
    /\ LET settled == IF aggIn.version = "generateAnalyticsInsights"
                      THEN generateAnalyticsInsights(ctor, call)
                      ELSE getInsights(aggIn.version, aggIn.config, ctor, call)
       IN  aggOut' = [kind |-> settled.kind, state |-> settled.state,
                      report |-> settled.report,
                      request |-> InsightRequest(aggIn.version, aggIn.config, ctor, events)]
    /\ UNCHANGED simVars

-----------------------------------------------------------------------------
(* The application *)

\* what local storage holds when the app is loaded: nothing, or what the
\* sync effect of an earlier session left there
StoredSessions(v) ==
    {EmptyStorage} \cup
    {Persist(v, EmptyStorage, "light", DefaultAIConfig, e, b) : e \in Endpoints, b \in BOOLEAN}

\* useState initialisers; theme, aiConfig, customEndpoint and isVerified come
\* from localStorage
SimInit ==
    /\ variant \in Variants
    /\ storage \in StoredSessions(variant)
    /\ mounted = FALSE
    /\ events = <<>>
    /\ theme = LoadTheme(variant, storage)
    /\ aiConfig = LoadAIConfig(variant, storage)
    /\ customEndpoint = LoadEndpoint(storage)
    /\ isVerified = LoadVerified(variant, storage)
    /\ abortTimers = {}
    /\ testStatus = "idle"
    /\ errorMessage = Null
    /\ sentLogs = <<>>
    /\ customJson = TextOf("ecommerce")
    /\ lastMatchedStep = Null
    /\ inflight = {}
    /\ idleTimers = 0
    /\ stepTimers = 0
    /\ nextId = 1
    /\ fetchCount = 0
    /\ pingCount = 0
    /\ last = Step("init", "", 0, 0, 0)

Init ==
    /\ SimInit
    /\ aggIn = NoAgg
    /\ aggOut = NoAgg

Next ==
    \/ Seed
    \/ AdvancedSend
    \/ \E type \in QuickTypes(variant), draw \in QuickDraws : QuickSend(type, draw)
    \/ \E r \in inflight, outcome \in Outcomes(variant), meta \in MetaDraws(variant) :
            SendDone(r, outcome, meta)
    \/ verifyConnection
    \/ \E r \in inflight, outcome \in {"ok", "http", "neterr"} : VerifyDone(r, outcome)
    \/ disconnect
    \/ \E url \in Endpoints : setCustomEndpoint(url)
    \/ \E text \in JsonTexts : setCustomJson(text)
    \/ IdleTimerFires
    \/ StepTimerFires

Spec == Init /\ [][Next]_vars

-----------------------------------------------------------------------------
(* The delivery log over long runs of sends: a connected component whose   *)
(* user sends page views one after the other, each send started once the   *)
(* one before it has completed and its timers have fired                   *)

\* sendSimulatedEvent calls that reach fetch, per behaviour of SpecLog
MaxLogSends == 11

LogInit ==
    /\ SimInit
    /\ customEndpoint \in Urls
    /\ isVerified = (variant \in VerifiedVariants)
    /\ aggIn = NoAgg
    /\ aggOut = NoAgg

LogSend ==
    /\ inflight = {}
    /\ idleTimers = 0
    /\ stepTimers = 0
    /\ sendSimulatedEvent(quickSend(variant, "pageview", 1), MaxLogSends)

LogNext ==
    \/ Seed
    \/ LogSend
    \/ \E r \in inflight, outcome \in Outcomes(variant), meta \in MetaDraws(variant) :
            SendDone(r, outcome, meta)
    \/ IdleTimerFires
    \/ StepTimerFires

SpecLog == LogInit /\ [][LogNext]_vars

-----------------------------------------------------------------------------
(* Overlapping sends: a connected component whose user clicks the quick    *)
(* actions without waiting for the responses, and disconnects              *)

\* sendSimulatedEvent calls that reach fetch, per behaviour of SpecOverlap
MaxOverlapSends == 3

\* the quick actions clicked
OverlapTypes == {"pageview", "button_click", "purchase_complete"}

OverlapSend(type) ==
    /\ type \in QuickTypes(variant) \cap OverlapTypes
    /\ sendSimulatedEvent(quickSend(variant, type, 1), MaxOverlapSends)

OverlapNext ==
    \/ Seed
    \/ \E type \in OverlapTypes : OverlapSend(type)
    \/ \E r \in inflight, outcome \in Outcomes(variant), meta \in MetaDraws(variant) :
            SendDone(r, outcome, meta)
    \/ disconnect
    \/ IdleTimerFires
    \/ StepTimerFires

SpecOverlap == LogInit /\ [][OverlapNext]_vars

\* every fetch settles: the receiver answers, the network fails, or (first
\* component of part_000) the 8000 ms timer aborts the request, and the
\* continuation of sendSimulatedEvent then runs
SpecOverlapLive ==
    /\ SpecOverlap
    /\ WF_vars(\E r \in inflight, outcome \in Outcomes(variant), meta \in MetaDraws(variant) :
                    SendDone(r, outcome, meta))

-----------------------------------------------------------------------------
(* The payload editor: a connected component whose user types payloads and *)
(* dispatches them, between quick actions                                   *)

EditorNext ==
    \/ Seed
    \/ \E text \in {TextOf("ecommerce"), EmptyObjectText, PricingText} : setCustomJson(text)
    \/ AdvancedSend
    \/ \E type \in QuickTypes(variant), draw \in QuickDraws : QuickSend(type, draw)
    \/ \E r \in inflight, outcome \in Outcomes(variant), meta \in MetaDraws(variant) :
            SendDone(r, outcome, meta)
    \/ IdleTimerFires
    \/ StepTimerFires

SpecEditor == LogInit /\ [][EditorNext]_vars

-----------------------------------------------------------------------------
(* The persisted configuration over sessions: a user who changes the       *)
(* settings, connects, disconnects and reloads the page                    *)

ConfigNext ==
    \/ Seed
    \/ toggleTheme
    \/ \E field \in {"provider", "model", "customEndpoint"},
          value \in Providers \cup Models \cup ConfigEndpoints : setAiConfig(field, value)
    \/ \E url \in Endpoints : setCustomEndpoint(url)
    \/ verifyConnection
    \/ \E r \in inflight, outcome \in {"ok", "http", "neterr"} : VerifyDone(r, outcome)
    \/ disconnect
    \/ IdleTimerFires
    \/ Reload

SpecConfig == Init /\ [][ConfigNext]_vars

-----------------------------------------------------------------------------
(* The Aggregator over drawn event lists *)

\* the events the drawn lists are made of: the seeded kinds, a pricing event
\* recognised by its type alone, and metadata that is absent, zero or positive
AggTemplates ==
    <<Event("pageview", "/home", Absent, Absent, SeedTimestamp),
      Event("pageview", "/pricing", 30, 500, SeedTimestamp),
      Event("view_pricing", "/plans", 0, 0, SimTimestamp),
      Event("signup_start", "/signup", Absent, Absent, SeedTimestamp),
      Event("purchase_complete", "/checkout/success", 100, 1449, SimTimestamp)>>

\* how many events of a kind a drawn list holds
RunSizes == {0, 1, 2, 23, 40}

AggLists ==
    {SelectSeq([i \in DOMAIN AggTemplates |-> Run(n[i], AggTemplates[i])],
               LAMBDA r : r.n > 0) : n \in [DOMAIN AggTemplates -> RunSizes]}

\* Date.now() at a render: two minutes and ten minutes after the mount
Clock == {2 * 60 * 1000, 10 * 60 * 1000}

\* a render: the useMemo callbacks compute funnelData and stats (the latter
\* exists in part_000b only) from the Event Store, at the time `now`
Render(now) ==
    /\ mounted
    /\ now \in Clock
    /\ aggOut' = [kind |-> "render",
                  funnel |-> funnelData(events),
                  stats |-> IF variant = "part_000b" THEN stats(events, now) ELSE NoAgg]
    /\ UNCHANGED <<simVars, aggIn>>

\* a component whose Event Store holds a drawn list, or is about to be seeded
AggInit ==
    /\ variant \in VerifiedVariants
    /\ mounted \in BOOLEAN
    /\ events \in (IF mounted THEN AggLists ELSE {<<>>})
    /\ customEndpoint = ""
    /\ isVerified = FALSE
    /\ abortTimers = {}
    /\ theme = "light"
    /\ aiConfig = DefaultAIConfig
    /\ storage = IF mounted
                 THEN Persist(variant, EmptyStorage, "light", DefaultAIConfig, "", FALSE)
                 ELSE EmptyStorage
    /\ testStatus = "idle"
    /\ errorMessage = Null
    /\ sentLogs = <<>>
    /\ customJson = TextOf("ecommerce")
    /\ lastMatchedStep = Null
    /\ inflight = {}
    /\ idleTimers = 0
    /\ stepTimers = 0
    /\ nextId = 1
    /\ fetchCount = 0
    /\ pingCount = 0
    /\ last = Step("init", "", 0, 0, 0)
    /\ aggIn = NoAgg
    /\ aggOut = NoAgg

AggNext ==
    \/ Seed
    \/ \E now \in Clock : Render(now)

SpecAgg == AggInit /\ [][AggNext]_vars

-----------------------------------------------------------------------------
(* The Insight Client over drawn calls *)

InsightLists == {<<>>, SeedFunnel(<<Absent, Absent, SeedTimestamp>>), SeedMockPages(0),
                 <<Run(2, Event("pageview", "/home", Absent, Absent, SimTimestamp))>>}

InsightInit ==
    /\ variant = "App"
    /\ mounted = TRUE
    /\ events \in InsightLists
    /\ customEndpoint = ""
    /\ isVerified = FALSE
    /\ abortTimers = {}
    /\ theme = "light"
    /\ aiConfig = DefaultAIConfig
    /\ storage = Persist(variant, EmptyStorage, "light", DefaultAIConfig, "", FALSE)
    /\ testStatus = "idle"
    /\ errorMessage = Null
    /\ sentLogs = <<>>
    /\ customJson = TextOf("ecommerce")
    /\ lastMatchedStep = Null
    /\ inflight = {}
    /\ idleTimers = 0
    /\ stepTimers = 0
    /\ nextId = 1
    /\ fetchCount = 0
    /\ pingCount = 0
    /\ last = Step("init", "", 0, 0, 0)
    /\ aggIn \in {[kind |-> "insight", version |-> v, config |-> AIConfig(p, "gemini-3-flash-preview", e),
                   ctor |-> "", call |-> ""] :
                      v \in Versions, p \in Providers, e \in Endpoints}
    /\ aggOut = NoAgg

InsightNext == \E ctor \in CtorOutcomes, call \in CallOutcomes : FetchInsights(ctor, call)

SpecInsight == InsightInit /\ [][InsightNext]_vars

-----------------------------------------------------------------------------
(* Properties of sendSimulatedEvent *)

\* C1: in the variants of src/App.tsx, src/unnamed/part_001 and the first
\* component of src/unnamed/part_000, the Event Store changes after mounting
\* only in the step that completes a simulated send, and only when the POST
\* was answered with a 2xx response; after a non-2xx response, a network
\* failure or an abort it is unchanged.
C1_StoreGrowsOnlyOn2xx ==
    [][(mounted /\ variant \in {"App", "part_001", "part_000a"} /\ events' # events)
         => /\ \E r \in inflight \ inflight' : r.kind = "send"
            /\ last'.op = "sendDone"
            /\ last'.outcome = "ok"]_vars

\* C2: in the variants of src/App.tsx and the first component of
\* src/unnamed/part_000, the step that completes a simulated send answered
\* with a non-2xx status leaves exactly one more entry of status 'error' in
\* sentLogs.
C2_Non2xxRecordsOneError ==
    [][LET ErrorEntries(logs) == Cardinality({i \in DOMAIN logs : logs[i].status = "error"})
       IN  (/\ variant \in {"App", "part_000a"}
            /\ \E r \in inflight \ inflight' : r.kind = "send"
            /\ last'.op = "sendDone"
            /\ last'.outcome = "http")
             => ErrorEntries(sentLogs') = ErrorEntries(sentLogs) + 1]_vars

\* C3: a call of sendSimulatedEvent() without a payload that passes the guard
\* while customJson is not valid JSON issues no POST, appends no event, raises
\* exactly one report to the user and ends without an uncaught exception.
C3_MalformedReportedOnce ==
    [][(/\ mounted
        /\ customJson = InvalidText
        /\ last' # last
        /\ last'.op = "send"
        /\ last'.outcome = "malformed")
         => /\ last'.fetches = 0
            /\ inflight' = inflight
            /\ events' = events
            /\ last'.alerts = 1
            /\ last'.uncaught = 0]_vars

-----------------------------------------------------------------------------
(* Properties of the Insight Client *)

\* C4: whatever the event list and configuration, the call of the Insight
\* Client resolves; when the provider failed (network failure, non-2xx
\* status, a text that is not JSON, no custom endpoint, or the client could
\* not be built) it resolves to a fallback report whose performanceScore is 0.
C4_InsightsNeverReject ==
    aggOut.kind = "insight" =>
        /\ aggOut.state = "resolved"
        /\ (\/ aggIn.call \in {"neterr", "http", "malformed"}
            \/ aggIn.ctor = "throws" /\ (aggIn.version = "generateAnalyticsInsights"
                                         \/ aggIn.config.provider = "gemini-builtin")
            \/ (/\ aggIn.version # "generateAnalyticsInsights"
                /\ aggIn.config.provider = "custom-endpoint"
                /\ aggIn.config.customEndpoint = ""))
               => /\ aggOut.report.performanceScore = 0
                  /\ aggOut.report.summary \in
                        {"Unable to generate insights at this time.",
                         "The AI engine is currently unavailable or misconfigured.",
                         "Inference engine paused. Check your connection."}

-----------------------------------------------------------------------------
(* Properties of the Aggregator *)

\* C5: in src/App.tsx and src/unnamed/part_001, funnelData has the steps home, pricing, signup, completed in that
\* order, count[i] being the number of events of the list that match the
\* step's predicate, conversion[i] = round(100 * count[i] / max(count[0], 1)),
\* dropoff[0] = 0 and dropoff[i] = round(100 * (1 - count[i] / max(count[i-1], 1))),
\* the rounding being that of the exact quotient (halves upward).
C5_FunnelFormulas ==
    (aggOut.kind = "render" /\ variant \in {"App", "part_001"}) =>
        LET list == Expand(events)
            count == <<Cardinality({j \in DOMAIN list : list[j].path = "/home"}),
                       Cardinality({j \in DOMAIN list : list[j].path = "/pricing"
                                        \/ Includes(list[j].type, "pricing")}),
                       Cardinality({j \in DOMAIN list : list[j].path = "/signup"
                                        \/ list[j].type = "signup_start"}),
                       Cardinality({j \in DOMAIN list : list[j].path = "/checkout/success"
                                        \/ list[j].type = "purchase_complete"})>>
            round(num, den) == (2 * num + den) \div (2 * den)
        IN  /\ Len(aggOut.funnel) = 4
            /\ \A i \in 1..4 :
                /\ aggOut.funnel[i].stepKey = <<"home", "pricing", "signup", "completed">>[i]
                /\ aggOut.funnel[i].count = count[i]
                /\ aggOut.funnel[i].conversion = round(100 * count[i], Max(count[1], 1))
                /\ aggOut.funnel[i].dropoff =
                      IF i = 1 THEN 0
                      ELSE round(100 * (Max(count[i - 1], 1) - count[i]), Max(count[i - 1], 1))

\* C6: in src/App.tsx and the second component of src/unnamed/part_000, no
\* step of funnelData has a negative dropoff, also when a step has
\* more matching events than the step before it or the step before it has none.
C6_DropoffNeverNegative ==
    (aggOut.kind = "render" /\ variant \in {"App", "part_000b"})
        => \A i \in 1..4 : aggOut.funnel[i].dropoff >= 0

\* C7: when the step counts are non-increasing, the conversions are
\* non-increasing in step order and each lies between 0 and 100.
C7_ConversionsMonotone ==
    (/\ aggOut.kind = "render"
     /\ \A i \in 1..3 : aggOut.funnel[i].count >= aggOut.funnel[i + 1].count)
        => /\ \A i \in 1..4 : aggOut.funnel[i].conversion \in 0..100
           /\ \A i \in 1..3 : aggOut.funnel[i].conversion >= aggOut.funnel[i + 1].conversion

\* C7 witness: a render of a list with step counts 40, 23, 2, 1
C7_Witness ==
    /\ aggOut.kind = "render"
    /\ [i \in 1..4 |-> aggOut.funnel[i].count] = <<40, 23, 2, 1>>
    /\ [i \in 1..4 |-> aggOut.funnel[i].conversion] = <<100, 57, 5, 3>>

\* C8: the list seeded at startup by App.tsx yields the counts 450, 280, 120,
\* 65, the conversions 100, 62, 27, 14 and a dropoff of 0 for the first step.
C8_SeededFunnel ==
    (aggOut.kind = "render" /\ variant = "App" /\ events \in SeededLists("App"))
        => /\ [i \in 1..4 |-> aggOut.funnel[i].count] = <<450, 280, 120, 65>>
           /\ [i \in 1..4 |-> aggOut.funnel[i].conversion] = <<100, 62, 27, 14>>
           /\ aggOut.funnel[1].dropoff = 0

\* C8 witness: App.tsx has seeded its list of 915 events and rendered
C8_Witness ==
    /\ aggOut.kind = "render"
    /\ variant = "App"
    /\ Len(events) = 4
    /\ [i \in 1..4 |-> events[i].n] = <<450, 280, 120, 65>>
    /\ [i \in 1..4 |-> events[i].e.path] = <<"/home", "/pricing", "/signup", "/checkout/success">>

-----------------------------------------------------------------------------
(* Properties of the delivery log *)

\* C10: sentLogs never holds more than 10 entries, and a step that records an
\* attempt puts the new entry first and keeps the entries it held in their
\* order, dropping the last one when it held 10; the only other change to
\* the log is the status of an entry.
C10_LogBoundedNewestFirst ==
    [][/\ Len(sentLogs) <= 10
       /\ Len(sentLogs') <= 10
       /\ \/ sentLogs' = sentLogs
          \/ /\ Len(sentLogs') = Len(sentLogs)
             /\ \A i \in DOMAIN sentLogs :
                   /\ sentLogs'[i].id = sentLogs[i].id
                   /\ sentLogs'[i].type = sentLogs[i].type
          \/ /\ Len(sentLogs') = Min(Len(sentLogs) + 1, 10)
             /\ \A i \in 2..Len(sentLogs') : sentLogs'[i] = sentLogs[i - 1]]_vars

\* C10 witness: eleven attempts were recorded, the log holds the ten newest
\* of them, newest first, and the first one is gone
C10_Witness ==
    /\ variant \in {"part_000a", "App"}
    /\ nextId = 12
    /\ Len(sentLogs) = 10
    /\ [i \in 1..10 |-> sentLogs[i].id] = [i \in 1..10 |-> 12 - i]

-----------------------------------------------------------------------------
(* Properties of overlapping and failing sends *)

\* C11: a step issues at most one POST, and the step that issues it is the
\* call of sendSimulatedEvent, which adds one fetch call to those awaiting a
\* response; the step that handles a response, a network failure or the
\* abort of the timeout issues none and leaves no new fetch call behind.
C11_AtMostOnePost ==
    [][/\ fetchCount' \in {fetchCount, fetchCount + 1}
       /\ fetchCount' = fetchCount + 1
            => /\ last'.op = "send"
               /\ last'.fetches = 1
               /\ inflight \subseteq inflight'
               /\ Cardinality(inflight' \ inflight) = 1
       /\ fetchCount' = fetchCount => inflight' \subseteq inflight]_vars

\* C11 witness: the only POST of the behaviour has failed (non-2xx status,
\* network failure or abort) and nothing awaits a response
C11_Witness ==
    /\ last.op = "sendDone"
    /\ last.outcome \in {"http", "neterr", "abort"}
    /\ fetchCount = 1
    /\ inflight = {}

\* C12: in the first component of src/unnamed/part_000, the 8000 ms timers
\* that are armed are those of the fetch calls still awaiting a response, so
\* a response that has arrived cancels its timer; and the step in which a
\* timer aborts its call sets testStatus to 'error', appends no event and
\* turns the status of the attempt's log entry, which is still there, to
\* 'error', leaving the other entries as they are.
C12_TimeoutMarksAttemptFailed ==
    /\ [](variant = "part_000a"
            => abortTimers = {r.rid : r \in {q \in inflight : q.kind = "send"}})
    /\ [][\A r \in inflight \ inflight' :
              (variant = "part_000a" /\ r.kind = "send" /\ last'.op = "sendDone")
                 => /\ r.rid \notin abortTimers'
                    /\ last'.outcome = "abort"
                         => /\ r.rid \in abortTimers
                            /\ testStatus' = "error"
                            /\ events' = events
                            /\ \E i \in DOMAIN sentLogs : sentLogs[i].id = r.logId
                            /\ sentLogs' = [i \in DOMAIN sentLogs |->
                                   IF sentLogs[i].id = r.logId
                                   THEN [sentLogs[i] EXCEPT !.status = "error"]
                                   ELSE sentLogs[i]]]_vars

\* C12 witness: the timer of an attempt has aborted it while another attempt
\* awaits its response; the aborted attempt's entry reads 'error', the other
\* one 'pending', and the store holds the 80 seeded events
C12_Witness ==
    /\ variant = "part_000a"
    /\ last.op = "sendDone"
    /\ last.outcome = "abort"
    /\ testStatus = "error"
    /\ Cardinality(inflight) = 1
    /\ Len(sentLogs) = 2
    /\ {sentLogs[i].status : i \in DOMAIN sentLogs} = {"error", "pending"}
    /\ Length(events) = SeedMock

\* C14: whatever the interleaving of overlapping sends, no update is lost:
\* the store holds the seeded events and one event per attempt logged as a
\* success; and in the first component of src/unnamed/part_000, where an
\* attempt is logged when it starts, the log holds one entry per attempt,
\* the pending entries being exactly those of the attempts still awaiting
\* their response (up to the 10 attempts the log keeps).
C14_NoLostUpdate ==
    LET Entries(status) == {i \in DOMAIN sentLogs : sentLogs[i].status = status}
        sends == {r \in inflight : r.kind = "send"}
        seeded == IF variant = "part_000a" THEN SeedMock
                  ELSE SeedHome + SeedPricing + SeedSignup + SeedPurchase
    IN  (mounted /\ fetchCount <= LogCap)
            => /\ Length(events) = seeded + Cardinality(Entries("success"))
               /\ variant = "part_000a"
                    => /\ Len(sentLogs) = fetchCount
                       /\ {sentLogs[i].id : i \in Entries("pending")}
                             = {r.logId : r \in sends}
                       /\ Cardinality(Entries("pending")) = Cardinality(sends)

\* C14 witness: of two overlapping attempts the one started first has been
\* answered with a 2xx response while the other awaits its response: the
\* store has one more event, the first entry is a success, the other pending
C14_Witness ==
    /\ variant = "part_000a"
    /\ fetchCount = 2
    /\ Cardinality(inflight) = 1
    /\ last.op = "sendDone"
    /\ last.outcome = "ok"
    /\ Length(events) = SeedMock + 1
    /\ [i \in DOMAIN sentLogs |-> sentLogs[i].status] = <<"pending", "success">>

\* C15: once the store is seeded, a step leaves it as it is or appends one
\* event at its end: the events it held stay, in their order and unchanged.
C15_StoreAppendOnly ==
    [][mounted =>
          \/ events' = events
          \/ /\ Length(events') = Length(events) + 1
             /\ Len(events') = Len(events) + 1
             /\ SubSeq(events', 1, Len(events)) = events
             /\ events'[Len(events')].n = 1]_vars

\* C15 witness: two simulated events follow the seeded ones, which are the
\* list the seeding left
C15_Witness ==
    /\ mounted
    /\ Len(events) > 2
    /\ SubSeq(events, 1, Len(events) - 2) \in SeededLists(variant)
    /\ events[Len(events) - 1].n = 1
    /\ events[Len(events)].n = 1
    /\ events[Len(events)].e.timestamp = SimTimestamp

\* C18: the event a send appends has the payload's `event` as its type and
\* the payload's `path` as its path where the payload has them, and the
\* type 'click' and the path '/simulator' where it has not.
C18_EventFromPayload ==
    [][\A r \in inflight \ inflight' :
          (r.kind = "send" /\ events' # events)
             => LET e == events'[Len(events')].e
                IN  /\ e.type = IF r.payload.event # Undefined
                                THEN r.payload.event ELSE "click"
                    /\ e.path = IF r.payload.path # Undefined
                                THEN r.payload.path ELSE "/simulator"]_vars

-----------------------------------------------------------------------------
(* Properties of the request status flag *)

\* C13: in src/App.tsx and the two components of src/unnamed/part_000, after
\* a call of sendSimulatedEvent whose request was answered (2xx or non-2xx)
\* or failed, or whose payload JSON.parse rejected, once no request awaits
\* its response and no timer that resets the flag is pending, testStatus is
\* 'idle': whatever a call of sendSimulatedEvent or verifyConnection set it
\* to, a timer has taken it back.
C13_StatusReturnsToIdle ==
    (/\ variant \in {"App", "part_000a", "part_000b"}
     /\ mounted
     /\ last.op \in {"send", "sendDone"}
     /\ last.outcome \in {"ok", "http", "neterr", "malformed"}
     /\ inflight = {}
     /\ idleTimers = 0)
        => testStatus = "idle"

-----------------------------------------------------------------------------
(* Properties of the Aggregator as a function of the Event Store *)

-----------------------------------------------------------------------------
(* Properties of the persisted configuration *)

\* C17: a reload restores the theme, the AI configuration (provider, model,
\* custom endpoint), the delivery URL and the verified flag the session had
\* last; and a freshly loaded app has the default of every value whose key
\* local storage does not hold: theme 'light', provider 'gemini-builtin'
\* with model 'gemini-3-flash-preview', an empty delivery URL, not verified.
C17_ConfigSurvivesReload ==
    /\ [](~mounted =>
            /\ "litetrack_theme" \notin DOMAIN storage => theme = "light"
            /\ "litetrack_ai_config" \notin DOMAIN storage
                 => /\ aiConfig.provider = "gemini-builtin"
                    /\ aiConfig.model = "gemini-3-flash-preview"
            /\ "litetrack_endpoint" \notin DOMAIN storage => customEndpoint = ""
            /\ "litetrack_verified" \notin DOMAIN storage => ~isVerified)
    /\ [][(mounted /\ ~mounted')
            => /\ theme' = theme
               /\ aiConfig' = aiConfig
               /\ customEndpoint' = customEndpoint
               /\ isVerified' = isVerified]_vars

\* C17 witness: a reload of the second component of src/unnamed/part_000 has
\* restored a configuration that differs from the default in every value
C17_Witness ==
    /\ variant = "part_000b"
    /\ last.op = "reload"
    /\ ~mounted
    /\ theme = "dark"
    /\ aiConfig = AIConfig("custom-endpoint", "gemini-3-pro-preview", "https://ai.example")
    /\ customEndpoint \in Urls
    /\ isVerified

-----------------------------------------------------------------------------
(* Properties of what the Insight Client sends *)

\* C19: the body sent to the custom endpoint holds the last min(50, n) events
\* of the list of n events, in store order; and the per-path counts sent to
\* the hosted model sum to min(N, n), N being the sample size of the
\* version: 50 for the second aiManager, 100 for the first one and for
\* generateAnalyticsInsights.
C19_BoundedSample ==
    LET list == Expand(events)
        n == Len(list)
        RECURSIVE Sum(_, _)
        Sum(f, S) == IF S = {} THEN 0
                     ELSE LET x == CHOOSE y \in S : TRUE IN f[x] + Sum(f, S \ {x})
        N == IF aggIn.version = "getInsights_v2" THEN 50 ELSE 100
    IN  aggOut.kind = "insight"
          => /\ aggOut.request.to = "custom"
                  => Expand(aggOut.request.events)
                        = SubSeq(list, n - Min(50, n) + 1, n)
             /\ aggOut.request.to = "gemini"
                  => Sum(aggOut.request.pages, DOMAIN aggOut.request.pages) = Min(N, n)

-----------------------------------------------------------------------------
(* Properties of disconnect *)

\* C20: in the components that have a disconnect, a step appends an event to
\* the store or adds an entry to sentLogs only while isVerified is true; a
\* send that was in flight when disconnect was invoked appends and logs
\* nothing.
C20_NothingRecordedAfterDisconnect ==
    [][(/\ variant \in {"App", "part_000b"}
        /\ mounted
        /\ events' # events \/ sentLogs' # sentLogs)
          => isVerified]_vars

-----------------------------------------------------------------------------
(* Properties of verifyConnection *)

\* C21: in src/App.tsx, the step in which a verification ping sent to a
\* receiver URL succeeds and isVerified becomes true leaves customEndpoint
\* equal to the URL the ping was sent to, also when the URL field was edited
\* while the ping was in flight.
C21_VerifiedEndpointIsPinged ==
    [][\A r \in inflight :
          (/\ variant = "App"
           /\ r.kind = "verify" /\ r.url \in Urls
           /\ inflight' = inflight \ {r}
           /\ ~isVerified /\ isVerified')
              => customEndpoint' = r.url]_vars

-----------------------------------------------------------------------------
(* Properties of the reset-to-idle timers *)

\* C22: in src/App.tsx and the first component of part_000, a reset-to-idle
\* timer that fires while a request is in flight leaves testStatus as it is
\* ('sending'): the timer of an earlier request never changes the status
\* during a later one.
C22_TimerSparesLaterRequest ==
    [][(/\ variant \in {"App", "part_000a"}
        /\ idleTimers' < idleTimers
        /\ inflight # {}
        /\ inflight' = inflight)
          => testStatus' = testStatus]_vars

-----------------------------------------------------------------------------
(* Properties of the reports of the Insight Client *)

\* C23: every report aiManager.getInsights resolves to has a summary, a
\* suggestions list and a performanceScore, whatever the provider answered.
C23_ReportIsComplete ==
    (/\ aggOut.kind = "insight"
     /\ aggIn.version \in {"getInsights_v1", "getInsights_v2"}
     /\ aggOut.state = "resolved")
        => {"summary", "suggestions", "performanceScore"} \subseteq DOMAIN aggOut.report

\* C24: isVerified becomes true only in the step that completes a
\* verification ping with a 2xx response (testStatus 'success', no error
\* message recorded); the step that completes a ping otherwise sets
\* testStatus to 'error', records the error's message, and leaves isVerified,
\* the Event Store and sentLogs unchanged.
C24_VerifiedOnlyOn2xx ==
    [][/\ (~isVerified /\ isVerified')
            => /\ \E r \in inflight : r.kind = "verify" /\ inflight' = inflight \ {r}
               /\ testStatus' = "success"
               /\ errorMessage' = errorMessage
       /\ \A r \in inflight :
            (r.kind = "verify" /\ inflight' = inflight \ {r} /\ testStatus' # "success")
                => /\ testStatus' = "error"
                   /\ errorMessage' \in {VerifyError(variant, o) : o \in {"http", "neterr"}}
                   /\ isVerified' = isVerified
                   /\ events' = events
                   /\ sentLogs' = sentLogs]_vars

\* a ping failed in a component that had sent events before it disconnected
C24_Witness ==
    /\ variant \in {"App", "part_000b"}
    /\ pingCount = 1
    /\ inflight = {}
    /\ testStatus = "error"
    /\ errorMessage \in {VerifyError(variant, o) : o \in {"http", "neterr"}}
    /\ ~isVerified
    /\ sentLogs # <<>>
    /\ Length(events) > SeedHome + SeedPricing + SeedSignup + SeedPurchase

-----------------------------------------------------------------------------
(* Properties of the guard of sendSimulatedEvent *)

\* C25: a call of sendSimulatedEvent made while the simulator is not
\* connected (no delivery URL in the first component of part_000, isVerified
\* false in the other variants) issues no POST and leaves the Event Store,
\* sentLogs and testStatus unchanged.
C25_NotConnectedSendsNothing ==
    [][(/\ mounted
        /\ IF variant = "part_000a" THEN customEndpoint = "" ELSE ~isVerified
        /\ last'.op = "send"
        /\ last' # last)
          => /\ last'.fetches = 0
             /\ fetchCount' = fetchCount
             /\ inflight' = inflight
             /\ events' = events
             /\ sentLogs' = sentLogs
             /\ testStatus' = testStatus]_vars

\* the last call of sendSimulatedEvent returned at its guard, in a seeded
\* component that is not connected and shows a failed connection attempt
C25_Witness ==
    /\ mounted
    /\ variant \in {"App", "part_001"}
    /\ ~isVerified
    /\ last.op = "send" /\ last.outcome = "guard"
    /\ testStatus = "error"
    /\ Length(events) > 0

\* C26: for an empty event list, the summary the second prepareSummary
\* builds for the hosted model has avgLoadTime 0 and a conversionRate that is
\* a number, not NaN.
C26_EmptySummaryIsNumeric ==
    (/\ aggOut.kind = "insight"
     /\ aggIn.version = "getInsights_v2"
     /\ aggOut.request.to = "gemini"
     /\ Length(events) = 0)
        => /\ ~IsNaN(aggOut.request.avgLoadTime)
           /\ aggOut.request.avgLoadTime.int = 0
           /\ IsZero(aggOut.request.avgLoadTime.frac)
           /\ ~IsNaN(aggOut.request.conversionRate)

-----------------------------------------------------------------------------
(* Properties of the quick actions and the funnel highlighting *)

\* C27: in src/App.tsx and the second component of part_000, the step in
\* which the send of a quick action (pageview, view_pricing, signup_start,
\* purchase_complete) succeeds raises the count of one funnel step by one
\* (home, pricing, signup, completed respectively) and leaves the other three
\* counts as they were.
C27_QuickSendRaisesOneStep ==
    [][\A r \in inflight :
        \A i \in 1..4 :
          (/\ variant \in {"App", "part_000b"}
           /\ r.kind = "send"
           /\ inflight' = inflight \ {r}
           /\ events' # events
           /\ r.payload = quickSend(variant,
                  <<"pageview", "view_pricing", "signup_start", "purchase_complete">>[i], 1))
            => StepCounts(events') = [StepCounts(events) EXCEPT ![i] = @ + 1]]_vars

\* the 'View Pricing Table' action has succeeded on the seeded store
C27_Witness ==
    /\ variant = "App"
    /\ last.op = "sendDone" /\ last.outcome = "ok"
    /\ StepCounts(events) = <<SeedHome, SeedPricing + 1, SeedSignup, SeedPurchase>>

-----------------------------------------------------------------------------
(* Properties of the pending log entries *)

\* C28: in the first component of part_000, an entry of sentLogs has status
\* 'pending' only while its request is in flight; every pending entry
\* eventually has status 'success' or 'error' or has left the log; and an
\* entry whose status is 'success' or 'error' keeps it for as long as it is
\* in the log.
C28_PendingIsResolved ==
    /\ [](variant = "part_000a" =>
            \A i \in DOMAIN sentLogs :
                sentLogs[i].status = "pending"
                    => \E r \in inflight : r.kind = "send" /\ r.logId = sentLogs[i].id)
    /\ [][variant = "part_000a" =>
            \A i \in DOMAIN sentLogs : \A j \in DOMAIN sentLogs' :
                (sentLogs[i].status # "pending" /\ sentLogs'[j].id = sentLogs[i].id)
                    => sentLogs'[j].status = sentLogs[i].status]_vars
    /\ \A id \in 1..MaxOverlapSends :
            (variant = "part_000a"
                /\ \E i \in DOMAIN sentLogs :
                        sentLogs[i].id = id /\ sentLogs[i].status = "pending")
            ~> (\A i \in DOMAIN sentLogs :
                        sentLogs[i].id = id => sentLogs[i].status \in {"success", "error"})

\* all attempts have ended, the last one by the 8000 ms timer; the log holds
\* a delivered and a failed attempt
C28_Witness ==
    /\ variant = "part_000a"
    /\ inflight = {}
    /\ last.op = "sendDone" /\ last.outcome = "abort"
    /\ Len(sentLogs) = MaxOverlapSends
    /\ \E i \in DOMAIN sentLogs : sentLogs[i].status = "success"
    /\ \E i \in DOMAIN sentLogs : sentLogs[i].status = "error"

\* C29: in src/App.tsx and the second component of part_000, after the step
\* in which a send succeeds, lastMatchedStep is the stepKey of a funnel step
\* whose count the appended event raised, and it is null only when the event
\* raised no count.
C29_HighlightIsARaisedStep ==
    [][\A r \in inflight :
        (/\ variant \in {"App", "part_000b"}
         /\ r.kind = "send"
         /\ inflight' = inflight \ {r}
         /\ events' # events)
          => LET raised == {i \in 1..4 : StepCounts(events')[i] > StepCounts(events)[i]}
             IN  IF lastMatchedStep' = Null
                 THEN raised = {}
                 ELSE \E i \in raised : StepKeys[i] = lastMatchedStep']_vars

-----------------------------------------------------------------------------
(* Properties of the ids of the delivery log *)

\* C30: in src/App.tsx, no two entries of sentLogs have the same id.
C30_LogIdsDistinct ==
    variant = "App" =>
        \A i \in DOMAIN sentLogs : \A j \in DOMAIN sentLogs :
            i # j => sentLogs[i].id # sentLogs[j].id

====
